---- MODULE Spec2Model ----
(***************************************************************************)
(* Model of being24/glowing-enigma: a Google Calendar -> Mattermost digest *)
(* bot.  Three programs live in the repository and each is a              *)
(* specification here:                                                     *)
(*   Spec    : main.py run as a script (the scheduler driver)              *)
(*   MMSpec  : mattermost_driver.py run as a script (class Mattermost and  *)
(*             its stale-post filters)                                     *)
(*   CalSpec : the GoogleCalendar object of google_calender.py, and the    *)
(*             digest assembly of main.py applied to the events it returns *)
(*                                                                         *)
(* Time is counted in whole hours.  A timezone-aware datetime is its wall  *)
(* clock, the number of hours since 1970-01-01 00:00 on that wall clock;   *)
(* the instant it denotes is wall - utcoffset.  Text is a sequence of      *)
(* one-character strings, so that Python's substring test is computed.     *)
(***************************************************************************)
EXTENDS Integers, Sequences, FiniteSets, TLC

\* ------------------------------------------------------------- bounds
MaxDay == 8
MaxPosts == 3
MaxEvents == 2

\* ------------------------------------------------------------- time
HoursPerDay == 24
TZOffset == 9
EpochWeekday == 3

WallAt(day, hour) == day * HoursPerDay + hour
DayOf(wall) == wall \div HoursPerDay
HourOf(wall) == wall % HoursPerDay
\* datetime.weekday(): Monday = 0 ... Sunday = 6
weekday(wall) == (DayOf(wall) + EpochWeekday) % 7
\* datetime.replace(hour=0, minute=0, second=0, microsecond=0)
replace_midnight(wall) == wall - HourOf(wall)
\* datetime + timedelta(days=n)
plus_days(wall, n) == wall + n * HoursPerDay
\* datetime.now(tz) at the instant utcnow, datetime.fromtimestamp(ts, tz)
now_in(utcnow, offset) == utcnow + offset
fromtimestamp(ts, offset) == ts + offset

\* ------------------------------------------------------------- text
this_week == <<"t","h","i","s"," ","w","e","e","k">>

\* Python's  sub in s  on str
Contains(s, sub) ==
    \E i \in 1..(Len(s) - Len(sub) + 1) : SubSeq(s, i, i + Len(sub) - 1) = sub

Digit(d) == <<"0","1","2","3","4","5","6","7","8","9">>[d + 1]

RECURSIVE Str(_)
\* str(n) for n >= 0, as f"{len(events)}" renders it
Str(n) == IF n < 10 THEN <<Digit(n)>> ELSE Str(n \div 10) \o <<Digit(n % 10)>>

None == "None"

VARIABLES
    env,            \* the environment: configuration name -> value or None
    token_paths,    \* number of files matching axial*.json beside the script
    utc,            \* the clock: the current instant, hours since the epoch
    pc,             \* position of the running script
    err,            \* the exception that ended the run, or "none"
    calls,          \* external calls made by the run, in order, with outcome
    store,          \* Post Store: the channel's posts as the API lists them
    now,            \* datetime.now(local_timezone) taken by the script
    del_list_one,   \* result of return_everyday_posts
    del_list_seven, \* result of return_week_day_posts
    local_timezone, \* google_calender's module global: <<utcoffset>>, <<>> if unbound
    calendar,       \* Calendar service: the items it returns for a query
    cal_now,        \* datetime.now(local_timezone) taken by a window method
    window,         \* the window computed, as datetimes
    request,        \* timeMin/timeMax handed to events().list
    events,         \* List[GoogleCalendarData] returned by get_calendar
    digest_class,   \* which digest is being assembled
    msg_header,     \* its header
    attachments,    \* result of create_attachments
    payload         \* the request body attached_post sends

vars == <<env, token_paths, utc, pc, err, calls, store, now, del_list_one,
          del_list_seven, local_timezone, calendar, cal_now, window, request,
          events, digest_class, msg_header, attachments, payload>>

mmVars == <<now, del_list_one, del_list_seven>>
calVars == <<local_timezone, cal_now, window, request, events>>
digestVars == <<digest_class, msg_header, attachments, payload>>

\* ------------------------------------------- main.py, configuration
ConfigNames == {"URL", "CHANNEL_ID", "BOT_TOKEN", "CALENDAR_ID", "BOT_ID"}

BotUser == "bot"
Envs == {e \in [ConfigNames -> {None, "set", BotUser}] :
            \A n \in ConfigNames : e[n] \in (IF n = "BOT_ID" THEN {None, BotUser} ELSE {None, "set"})}

\* check_config with the BOT_ID check left out
check_config_without_bot_id ==
    IF env["URL"] = None THEN "URL is not set"
    ELSE IF env["CHANNEL_ID"] = None THEN "CHANNEL_ID is not set"
    ELSE IF env["BOT_TOKEN"] = None THEN "BOT_TOKEN is not set"
    ELSE IF env["CALENDAR_ID"] = None THEN "CALENDAR_ID is not set"
    ELSE "none"

\* main.py 52-61: the first missing value raises ValueError naming it
check_config ==
    IF env["URL"] = None THEN "URL is not set"
    ELSE IF env["CHANNEL_ID"] = None THEN "CHANNEL_ID is not set"
    ELSE IF env["BOT_TOKEN"] = None THEN "BOT_TOKEN is not set"
    ELSE IF env["CALENDAR_ID"] = None THEN "CALENDAR_ID is not set"
    ELSE IF env["BOT_ID"] = None THEN "BOT_ID is not set"
    ELSE "none"

\* google_calender.py 24: def __init__(self)
GoogleCalendar_init_params == <<"self">>
\* main.py 71: GoogleCalendar(token_path, local_timezone)
GoogleCalendar_call_args == <<"token_path", "local_timezone">>

\* main.py 77, 95: the weekly and the daily trigger
weekly_trigger(t) == weekday(t) = 6 /\ HourOf(t) = 19
daily_trigger(t) == HourOf(t) = 10

NoItems == <<>>
NoPosts == <<>>

\* ------------------------------------------- main.py, the digest text
\* main.py 85-88
msg_header_week(evs) ==
    IF Len(evs) = 0
    THEN <<"T","h","e","r","e"," ","i","s"," ","n","o"," ","e","v","e","n","t","s"," ",
           "t","h","i","s"," ","w","e","e","k">>
    ELSE <<"T","h","e","r","e"," ","i","s"," ","*","*">> \o Str(Len(evs))
         \o <<"*","*"," ","e","v","e","n","t","s"," ","t","h","i","s"," ","w","e","e","k">>

\* msg_header_today with the first event's title in the header
msg_header_today_with_title(evs) ==
    IF Len(evs) = 0
    THEN <<"T","h","e","r","e"," ","i","s"," ","n","o"," ","e","v","e","n","t","s"," ",
           "t","o","d","a","y">>
    ELSE <<"T","h","e","r","e"," ","i","s"," ","*","*">> \o Str(Len(evs))
         \o <<"*","*"," ","e","v","e","n","t","s"," ","t","o","d","a","y",":"," ">>
         \o evs[1].summary

\* main.py 101-104
msg_header_today(evs) ==
    IF Len(evs) = 0
    THEN <<"T","h","e","r","e"," ","i","s"," ","n","o"," ","e","v","e","n","t","s"," ",
           "t","o","d","a","y">>
    ELSE <<"T","h","e","r","e"," ","i","s"," ","*","*">> \o Str(Len(evs))
         \o <<"*","*"," ","e","v","e","n","t","s"," ","t","o","d","a","y">>

\* main.py 92, 108: f"{msg_header}\n---\n"
digest_message(header) == header \o <<"\n","-","-","-","\n">>

\* ------------------------------------------------- mattermost_driver.py
UserIds == {BotUser, "alice"}
ChannelId == "ch"

\* the two zero-event digests main.py posts (lines 86, 102, then 92, 108)
WeeklyText == digest_message(msg_header_week(<<>>))
DailyText == digest_message(msg_header_today(<<>>))
Messages == {WeeklyText, DailyText}

\* post["create_at"] values: instants, on the Asia/Tokyo wall clock
\* Friday 19:00, Monday 00:00 and Saturday 00:00 before the runs below
CreateAts == {WallAt(9, 19) - TZOffset, WallAt(11, 0) - TZOffset, WallAt(16, 0) - TZOffset}
\* the instants the script is run at: Sunday 19:00 and Monday 10:00, Asia/Tokyo
RunInstants == {WallAt(17, 19) - TZOffset, WallAt(18, 10) - TZOffset}

\* channel_data["posts"].values() in the order the API returns them; ids are distinct
ApiPosts == [create_at : CreateAts, user_id : UserIds, message : Messages]
Stores == UNION {[1..n -> ApiPosts] : n \in 0..MaxPosts}

\* the response of driver.posts.get_posts_for_channel(channel_id)
channel_data_of(outcome) ==
    IF outcome = "status_code"
    THEN [status_code |-> 403, id |-> "api.context.permissions.app_error"]
    ELSE [posts |-> store, order |-> <<>>]

\* mattermost_driver.py 82-90
MattermostPostData(id, post, channel_id) ==
    [post_id |-> id,
     created_at |-> fromtimestamp(post.create_at, TZOffset),
     user_id |-> post.user_id,
     channel_id |-> channel_id,
     message |-> post.message]

\* list.insert keeping equal keys in their first order: one step of a stable sort
InsertSorted(acc, x) ==
    LET k == Cardinality({i \in 1..Len(acc) : acc[i].created_at <= x.created_at})
    IN SubSeq(acc, 1, k) \o <<x>> \o SubSeq(acc, k + 1, Len(acc))

RECURSIVE sorted(_)
\* sorted(post_list, key=lambda x: x.created_at): ascending and stable
sorted(post_list) ==
    IF post_list = <<>> THEN <<>>
    ELSE InsertSorted(sorted(SubSeq(post_list, 1, Len(post_list) - 1)), post_list[Len(post_list)])

\* get_cannel_posts without the sort of line 93
get_cannel_posts_unsorted(channel_data, channel_id) ==
    IF "status_code" \in DOMAIN channel_data
    THEN <<>>
    ELSE [i \in 1..Len(channel_data.posts) |->
            MattermostPostData(i, channel_data.posts[i], channel_id)]

\* mattermost_driver.py 74-95
get_cannel_posts(channel_data, channel_id) ==
    IF "status_code" \in DOMAIN channel_data
    THEN <<>>
    ELSE sorted([i \in 1..Len(channel_data.posts) |->
                    MattermostPostData(i, channel_data.posts[i], channel_id)])

\* mattermost_driver.py 97-108
return_user_id_list(post_list, user_id) ==
    LET keep(post) == post.user_id = user_id
    IN SelectSeq(post_list, keep)

\* return_before_post with <= for <
return_before_post_inclusive(post_list, before_date) ==
    LET keep(post) == post.created_at <= before_date
    IN SelectSeq(post_list, keep)

\* mattermost_driver.py 110-121
return_before_post(post_list, before_date) ==
    LET keep(post) == post.created_at < before_date
    IN SelectSeq(post_list, keep)

\* mattermost_driver.py 123-134
return_shift_datetime(t, before_date) ==
    plus_days(replace_midnight(t), before_date)

\* mattermost_driver.py 153, 173: the class tag of a post
weekly_tagged(message) == Contains(message, this_week)

\* mattermost_driver.py 136-155, on the response of the list call
return_everyday_posts(channel_data, t, channel_id, bot_id) ==
    LET post_list == get_cannel_posts(channel_data, channel_id)
        tg_list == return_user_id_list(post_list, bot_id)
        del_list == return_before_post(tg_list, return_shift_datetime(t, -1))
        keep(post) == ~weekly_tagged(post.message)
    IN SelectSeq(del_list, keep)

\* mattermost_driver.py 157-175, on the response of the list call
return_week_day_posts(channel_data, t, channel_id, bot_id) ==
    LET post_list == get_cannel_posts(channel_data, channel_id)
        tg_list == return_user_id_list(post_list, bot_id)
        del_list == return_before_post(tg_list, return_shift_datetime(t, -6))
        keep(post) == weekly_tagged(post.message)
    IN SelectSeq(del_list, keep)

\* mattermost_driver.py 196-203
mm_check_config ==
    IF env["URL"] = None THEN "URL is not set"
    ELSE IF env["CHANNEL_ID"] = None THEN "CHANNEL_ID is not set"
    ELSE IF env["BOT_TOKEN"] = None THEN "BOT_TOKEN is not set"
    ELSE IF env["BOT_ID"] = None THEN "BOT_ID is not set"
    ELSE "none"

Missing(e) == {n \in ConfigNames : e[n] = None}

\* --------------------------------------------------- google_calender.py
\* utcoffset of the zone local_timezone names, in hours
Offsets == {-5, 0, TZOffset}

\* a timezone-aware datetime
Datetime(wall, offset) == [wall |-> wall, utcoffset |-> offset]
InstantOf(dt) == dt.wall - dt.utcoffset

\* google_calender.py 163-172: strftime("%Y-%m-%dT%H:%M:%S.%fZ") prints the
\* datetime's own wall-clock fields and then the letter Z
return_shaped_datetime(time) ==
    [date |-> DayOf(time.wall), hour |-> HourOf(time.wall), designator |-> "Z"]

\* the instant an RFC 3339 timestamp denotes; the designator Z is offset 0
InstantOfTimestamp(ts) ==
    WallAt(ts.date, ts.hour) - (IF ts.designator = "Z" THEN 0 ELSE ts.designator)

\* next_week_window with the shift taken modulo 7: a Monday stays in its own week
next_week_window_this_week(t) ==
    LET shifted == plus_days(t.wall, (7 - weekday(t.wall)) % 7)
        next_monday == Datetime(replace_midnight(shifted), t.utcoffset)
        after_next_monday == Datetime(plus_days(next_monday.wall, 7), t.utcoffset)
    IN [method |-> "get_next_week_events", start |-> next_monday, end |-> after_next_monday]

\* google_calender.py 105-112
next_week_window(t) ==
    LET shifted == plus_days(t.wall, 7 - weekday(t.wall))
        next_monday == Datetime(replace_midnight(shifted), t.utcoffset)
        after_next_monday == Datetime(plus_days(next_monday.wall, 7), t.utcoffset)
    IN [method |-> "get_next_week_events", start |-> next_monday, end |-> after_next_monday]

\* google_calender.py 133-140
next_day_window(t) ==
    LET next_day == Datetime(replace_midnight(plus_days(t.wall, 1)), t.utcoffset)
        after_next_day == Datetime(plus_days(next_day.wall, 1), t.utcoffset)
    IN [method |-> "get_next_day_events", start |-> next_day, end |-> after_next_day]

\* google_calender.py 151-155: timedelta(weeks=2)
two_week_window(t) ==
    [method |-> "get_events", start |-> t,
     end |-> Datetime(plus_days(t.wall, 14), t.utcoffset)]

plan == <<"p","l","a","n">>
\* the items of an events().list response: an all-day and a timed event
AllDayItem ==
    [start |-> [date |-> 20], end |-> [date |-> 21], summary |-> plan,
     organizer |-> [email |-> "a@example.org"], htmlLink |-> "https://calendar/1"]
TimedItem ==
    [start |-> [dateTime |-> Datetime(WallAt(20, 13), TZOffset)],
     end |-> [dateTime |-> Datetime(WallAt(20, 14), TZOffset)],
     summary |-> plan \o <<" ">> \o this_week,
     organizer |-> [email |-> "b@example.org"], htmlLink |-> "https://calendar/2"]
Items == {AllDayItem, TimedItem}
Calendars == UNION {[1..n -> Items] : n \in 0..MaxEvents}

\* google_calender.py 13-20, 67-92: one item of the response as GoogleCalendarData
GoogleCalendarData(event, calender_timezone) ==
    IF "date" \in DOMAIN event.start
    THEN [start |-> Datetime(WallAt(event.start.date, 0), calender_timezone),
          end |-> Datetime(WallAt(event.end.date, 0), calender_timezone),
          summary |-> event.summary,
          organizer |-> event.organizer.email,
          schedule_type |-> "all_day",
          timezone |-> calender_timezone]
    ELSE [start |-> event.start.dateTime,
          end |-> event.end.dateTime,
          summary |-> event.summary,
          organizer |-> event.organizer.email,
          schedule_type |-> "time_limited",
          timezone |-> calender_timezone]

\* google_calender.py 33-93, on the response of events().list
get_calendar(event_list) ==
    [i \in 1..Len(event_list.items) |->
        GoogleCalendarData(event_list.items[i], event_list.timeZone)]

\* ------------------------------------------ main.py, the attachments
\* main.py 24-29: the label of an event
label(event) ==
    IF event.schedule_type = "all_day"
    THEN [date |-> DayOf(event.start.wall), text |-> "all_day"]
    ELSE [date |-> DayOf(event.start.wall), from |-> HourOf(event.start.wall),
          to |-> HourOf(event.end.wall)]

\* main.py 13-39: reading event.html_link of an object that has no such
\* attribute raises AttributeError
create_attachments(evs) ==
    IF \E i \in 1..Len(evs) : "html_link" \notin DOMAIN evs[i]
    THEN [raised |-> "AttributeError: 'GoogleCalendarData' object has no attribute 'html_link'",
          value |-> <<>>]
    ELSE [raised |-> "none",
          value |-> [i \in 1..Len(evs) |->
                        [color |-> "#87CEEB", text |-> label(evs[i]),
                         title |-> evs[i].summary, title_link |-> evs[i].html_link]]]

\* mattermost_driver.py 60-72: the body of the POST /posts request
attached_post(channel_id, message, atts) ==
    [channel_id |-> channel_id, message |-> message, props |-> [attachments |-> atts]]

\* ------------------------------- mattermost_driver.py run as a script
MMInit ==
    /\ env \in {e \in Envs : e["CALENDAR_ID"] # None /\ Cardinality(Missing(e)) <= 1}
    /\ token_paths = 0
    /\ utc \in RunInstants
    /\ pc = "config"
    /\ err = "none"
    /\ calls = <<>>
    /\ store \in Stores
    /\ now = None
    /\ del_list_one = <<>>
    /\ del_list_seven = <<>>
    /\ local_timezone = <<>>
    /\ calendar = NoItems
    /\ cal_now = None
    /\ window = None
    /\ request = None
    /\ events = <<>>
    /\ digest_class = "none"
    /\ msg_header = <<>>
    /\ attachments = <<>>
    /\ payload = None

mmFrame == <<env, token_paths, utc, store, local_timezone, calendar, cal_now, window,
             request, events, digest_class, msg_header, attachments, payload>>

\* mattermost_driver.py 188-207: the configuration checks, then now
MM_CheckConfig ==
    /\ pc = "config"
    /\ err' = mm_check_config
    /\ IF mm_check_config = "none"
       THEN /\ pc' = "login"
            /\ now' = now_in(utc, TZOffset)
       ELSE /\ pc' = "end"
            /\ now' = now
    /\ UNCHANGED <<calls, del_list_one, del_list_seven, mmFrame>>

\* mattermost_driver.py 209, 23-46: the constructor logs in
MM_Login ==
    /\ pc = "login"
    /\ \E outcome \in {"ok", "raise"} :
        /\ calls' = Append(calls, [api |-> "login", outcome |-> outcome])
        /\ pc' = IF outcome = "ok" THEN "everyday" ELSE "exit"
        /\ err' = IF outcome = "ok" THEN "none" ELSE "login failed"
    /\ UNCHANGED <<now, del_list_one, del_list_seven, mmFrame>>

\* mattermost_driver.py 226-227
MM_EverydayPosts ==
    /\ pc = "everyday"
    /\ \E outcome \in {"ok", "status_code", "raise"} :
        /\ calls' = Append(calls, [api |-> "get_posts_for_channel", outcome |-> outcome])
        /\ IF outcome = "raise"
           THEN /\ pc' = "exit"
                /\ err' = "get_posts_for_channel failed"
                /\ del_list_one' = del_list_one
           ELSE /\ pc' = "week"
                /\ err' = "none"
                /\ del_list_one' = return_everyday_posts(channel_data_of(outcome), now,
                                                         env["CHANNEL_ID"], env["BOT_ID"])
    /\ UNCHANGED <<now, del_list_seven, mmFrame>>

\* mattermost_driver.py 229-230
MM_WeekDayPosts ==
    /\ pc = "week"
    /\ \E outcome \in {"ok", "status_code", "raise"} :
        /\ calls' = Append(calls, [api |-> "get_posts_for_channel", outcome |-> outcome])
        /\ IF outcome = "raise"
           THEN /\ pc' = "exit"
                /\ err' = "get_posts_for_channel failed"
                /\ del_list_seven' = del_list_seven
           ELSE /\ pc' = "exit"
                /\ err' = "none"
                /\ del_list_seven' = return_week_day_posts(channel_data_of(outcome), now,
                                                           env["CHANNEL_ID"], env["BOT_ID"])
    /\ UNCHANGED <<now, del_list_one, mmFrame>>

\* mattermost_driver.py 48-49: the interpreter drops the driver, __del__ logs out
MM_Exit ==
    /\ pc = "exit"
    /\ pc' = "end"
    /\ calls' = Append(calls, [api |-> "logout", outcome |-> "ok"])
    /\ UNCHANGED <<err, now, del_list_one, del_list_seven, mmFrame>>

MMNext ==
    \/ MM_CheckConfig
    \/ MM_Login
    \/ MM_EverydayPosts
    \/ MM_WeekDayPosts
    \/ MM_Exit

MMSpec == MMInit /\ [][MMNext]_vars

\* ------------------- the GoogleCalendar object and the digest assembly
CalInit ==
    /\ env \in {e \in Envs : Missing(e) = {}}
    /\ token_paths = 1
    /\ utc = 0
    /\ pc = "idle"
    /\ err = "none"
    /\ calls = <<>>
    /\ store = NoPosts
    /\ now = None
    /\ del_list_one = <<>>
    /\ del_list_seven = <<>>
    /\ local_timezone \in {<<>>} \cup {<<o>> : o \in Offsets}
    /\ calendar \in Calendars
    /\ cal_now = None
    /\ window = None
    /\ request = None
    /\ events = <<>>
    /\ digest_class = "none"
    /\ msg_header = <<>>
    /\ attachments = <<>>
    /\ payload = None

calFrame == <<env, token_paths, store, now, del_list_one, del_list_seven,
              local_timezone, calendar>>

Cal_Tick ==
    /\ pc = "idle"
    /\ utc < MaxDay * HoursPerDay
    /\ utc' = utc + 1
    /\ UNCHANGED <<pc, err, calls, cal_now, window, request, events, digestVars, calFrame>>

\* the window each method computes from now
window_of(method, t) ==
    CASE method = "get_next_week_events" -> next_week_window(t)
      [] method = "get_next_day_events" -> next_day_window(t)
      [] method = "get_events" -> two_week_window(t)

\* a window method of GoogleCalendar from the line that reads the module
\* global local_timezone (NameError when the module never bound it): now is
\* taken, the window computed, shaped and handed to get_calendar
WindowMethod(method) ==
    IF local_timezone = <<>>
    THEN /\ err' = "NameError: name 'local_timezone' is not defined"
         /\ pc' = "done"
         /\ UNCHANGED <<calls, cal_now, window, request, events>>
    ELSE LET t == Datetime(now_in(utc, local_timezone[1]), local_timezone[1])
             w == window_of(method, t)
         IN /\ cal_now' = t
            /\ window' = w
            /\ request' = [timeMin |-> return_shaped_datetime(w.start),
                           timeMax |-> return_shaped_datetime(w.end)]
            /\ \E outcome \in {"ok", "raise"} :
                 /\ calls' = Append(calls, [api |-> "events.list", outcome |-> outcome])
                 /\ IF outcome = "ok"
                    THEN /\ events' = get_calendar([timeZone |-> TZOffset, items |-> calendar])
                         /\ err' = "none"
                         /\ pc' = "fetched"
                    ELSE /\ events' = events
                         /\ err' = "events.list failed"
                         /\ pc' = "done"

\* google_calender.py 95-120
Cal_get_next_week_events ==
    /\ pc = "idle"
    /\ WindowMethod("get_next_week_events")
    /\ UNCHANGED <<utc, digestVars, calFrame>>

\* google_calender.py 122-148
Cal_get_next_day_events ==
    /\ pc = "idle"
    /\ WindowMethod("get_next_day_events")
    /\ UNCHANGED <<utc, digestVars, calFrame>>

\* google_calender.py 150-161
Cal_get_events ==
    /\ pc = "idle"
    /\ WindowMethod("get_events")
    /\ UNCHANGED <<utc, digestVars, calFrame>>

\* main.py 85-92 (weekly) and 101-108 (daily) applied to the events read:
\* the header, the attachments, then the post
Digest(class, header) ==
    /\ digest_class' = class
    /\ msg_header' = header
    /\ LET made == create_attachments(events)
       IN IF made.raised # "none"
          THEN /\ err' = made.raised
               /\ pc' = "done"
               /\ UNCHANGED <<attachments, payload, calls>>
          ELSE /\ attachments' = made.value
               /\ \E outcome \in {"ok", "raise"} :
                    /\ calls' = Append(calls, [api |-> "POST /posts", outcome |-> outcome])
                    /\ payload' = attached_post(env["CHANNEL_ID"], digest_message(header),
                                                made.value)
                    /\ err' = IF outcome = "ok" THEN "none" ELSE "POST /posts failed"
                    /\ pc' = "done"

\* main.py 83-92, from the events read
Digest_Weekly ==
    /\ pc = "fetched"
    /\ Digest("weekly", msg_header_week(events))
    /\ UNCHANGED <<utc, cal_now, window, request, events, calFrame>>

\* main.py 99-108, from the events read
Digest_Daily ==
    /\ pc = "fetched"
    /\ Digest("daily", msg_header_today(events))
    /\ UNCHANGED <<utc, cal_now, window, request, events, calFrame>>

\* the caller is done with the results
Cal_Return ==
    /\ pc \in {"fetched", "done"}
    /\ pc' = "idle"
    /\ err' = "none"
    /\ calls' = <<>>
    /\ cal_now' = None
    /\ window' = None
    /\ request' = None
    /\ events' = <<>>
    /\ digest_class' = "none"
    /\ msg_header' = <<>>
    /\ attachments' = <<>>
    /\ payload' = None
    /\ UNCHANGED <<utc, calFrame>>

CalNext ==
    \/ Cal_Tick
    \/ Cal_get_next_week_events
    \/ Cal_get_next_day_events
    \/ Cal_get_events
    \/ Digest_Weekly
    \/ Digest_Daily
    \/ Cal_Return

CalSpec == CalInit /\ [][CalNext]_vars

\* ------------------------------------------- main.py run as a script
Init ==
    /\ env \in Envs
    /\ token_paths \in 0..1
    /\ utc = 0
    /\ pc = "idle"
    /\ err = "none"
    /\ calls = <<>>
    /\ store = NoPosts
    /\ now = None
    /\ del_list_one = <<>>
    /\ del_list_seven = <<>>
    /\ local_timezone = <<>>
    /\ calendar \in {NoItems, <<AllDayItem>>}
    /\ cal_now = None
    /\ window = None
    /\ request = None
    /\ events = <<>>
    /\ digest_class = "none"
    /\ msg_header = <<>>
    /\ attachments = <<>>
    /\ payload = None

\* the scheduler's clock: one hour passes between runs
Tick ==
    /\ pc = "idle"
    /\ utc < MaxDay * HoursPerDay
    /\ utc' = utc + 1
    /\ UNCHANGED <<env, token_paths, pc, err, calls, store, calendar>>
    /\ UNCHANGED <<mmVars, calVars, digestVars>>

\* the scheduler starts main.py: lines 42-50, load_dotenv and getenv
StartRun ==
    /\ pc = "idle"
    /\ pc' = "config"
    /\ err' = "none"
    /\ calls' = <<>>
    /\ UNCHANGED <<env, token_paths, utc, store, calendar>>
    /\ UNCHANGED <<mmVars, calVars, digestVars>>

\* main.py 52-61
CheckConfig ==
    /\ pc = "config"
    /\ err' = check_config
    /\ pc' = IF check_config = "none" THEN "token" ELSE "exit"
    /\ UNCHANGED <<env, token_paths, utc, calls, store, calendar>>
    /\ UNCHANGED <<mmVars, calVars, digestVars>>

\* main.py 63-67
FindToken ==
    /\ pc = "token"
    /\ err' = IF token_paths = 0 THEN "Token file not found" ELSE "none"
    /\ pc' = IF token_paths = 0 THEN "exit" ELSE "gc"
    /\ UNCHANGED <<env, token_paths, utc, calls, store, calendar>>
    /\ UNCHANGED <<mmVars, calVars, digestVars>>

\* main.py 71: the constructor is called with two arguments and takes none,
\* so Python raises TypeError before the constructor's body runs.  Lines
\* 72-108 (login, the stale-post deletion, the calendar read, the digest
\* post) are reached only if the argument count matches.
ConstructGoogleCalendar ==
    /\ pc = "gc"
    /\ IF Len(GoogleCalendar_call_args) + 1 = Len(GoogleCalendar_init_params)
       THEN /\ pc' = "driver"
            /\ err' = "none"
       ELSE /\ pc' = "exit"
            /\ err' = "TypeError: __init__() takes 1 positional argument but 3 were given"
    /\ UNCHANGED <<env, token_paths, utc, calls, store, calendar>>
    /\ UNCHANGED <<mmVars, calVars, digestVars>>

\* the process ends; the scheduler waits for the next run
Exit ==
    /\ pc = "exit"
    /\ pc' = "idle"
    /\ UNCHANGED <<env, token_paths, utc, err, calls, store, calendar>>
    /\ UNCHANGED <<mmVars, calVars, digestVars>>

Next ==
    \/ Tick
    \/ StartRun
    \/ CheckConfig
    \/ FindToken
    \/ ConstructGoogleCalendar
    \/ Exit

Spec == Init /\ [][Next]_vars

\* ===================================================== properties
\* ---- main.py (Spec)
NotSetError(n) ==
    CASE n = "URL" -> "URL is not set"
      [] n = "CHANNEL_ID" -> "CHANNEL_ID is not set"
      [] n = "BOT_TOKEN" -> "BOT_TOKEN is not set"
      [] n = "CALENDAR_ID" -> "CALENDAR_ID is not set"
      [] n = "BOT_ID" -> "BOT_ID is not set"

\* C5: a run of main.py with a required configuration value missing ends in
\* an error naming a missing value, having made no external call and having
\* changed nothing in the channel.
C5_MissingConfigIsFatal ==
    (pc \in {"token", "gc", "driver", "exit"} /\ Missing(env) # {}) =>
        /\ pc = "exit"
        /\ \E n \in Missing(env) : err = NotSetError(n)
        /\ calls = <<>>
        /\ store = NoPosts

\* a run with only BOT_ID missing has ended on "BOT_ID is not set"
C5_Witness ==
    /\ pc = "exit"
    /\ Missing(env) = {"BOT_ID"}
    /\ err = "BOT_ID is not set"
    /\ calls = <<>>

LocalNow == now_in(utc, TZOffset)
FullyConfigured == Missing(env) = {} /\ token_paths > 0

\* C6: a triggered run of main.py on an empty calendar does not fail and
\* leaves exactly one new post in the channel, the "no events" digest of
\* its class.
C6_EmptyCalendarDigest ==
    (pc = "exit" /\ FullyConfigured /\ calendar = NoItems
        /\ (weekly_trigger(LocalNow) \/ daily_trigger(LocalNow))) =>
        /\ err = "none"
        /\ Len(store) = 1
        /\ store[1].message = (IF weekly_trigger(LocalNow) THEN WeeklyText ELSE DailyText)

BotDigests(tagged) ==
    {i \in 1..Len(store) :
        store[i].user_id = env["BOT_ID"] /\ weekly_tagged(store[i].message) = tagged}

ListOutcome(k) ==
    LET is_list(c) == c.api = "get_posts_for_channel"
        lists == SelectSeq(calls, is_list)
    IN IF k <= Len(lists) THEN lists[k].outcome ELSE "none"

\* the instant startOfDay(now) - horizon days, now being the run's instant
\* on the Asia/Tokyo wall clock
CutoffInstant(horizon) ==
    replace_midnight(utc + TZOffset) - horizon * HoursPerDay - TZOffset

Qualifies(i, horizon, tagged) ==
    /\ store[i].user_id = env["BOT_ID"]
    /\ store[i].create_at < CutoffInstant(horizon)
    /\ Contains(store[i].message, this_week) = tagged

PostIds(del_list) == {del_list[k].post_id : k \in 1..Len(del_list)}

Ascending(del_list) ==
    \A j, k \in 1..Len(del_list) : j < k => del_list[j].created_at <= del_list[k].created_at

Complete(del_list, horizon, tagged) ==
    LET due == {i \in 1..Len(store) : Qualifies(i, horizon, tagged)}
    IN /\ PostIds(del_list) = due
       /\ Len(del_list) = Cardinality(due)
       /\ Ascending(del_list)

\* C2: when the Post Store lists the channel, in whatever order, the filter
\* returns every bot post of its class created strictly before its cutoff,
\* each once, in ascending created_at order; an empty channel gives an
\* empty result and no error.
C2_FilterComplete ==
    /\ ListOutcome(1) = "ok" => Complete(del_list_one, 1, FALSE)
    /\ ListOutcome(2) = "ok" => Complete(del_list_seven, 6, TRUE)
    /\ (store = NoPosts /\ ListOutcome(1) = "ok" /\ ListOutcome(2) = "ok") =>
            err = "none" /\ del_list_one = <<>> /\ del_list_seven = <<>>

\* the store lists a newer weekly bot post before an older one, and another
\* author's old weekly post; the weekly filter returned the two bot posts,
\* older first
C2_Witness ==
    /\ pc = "end"
    /\ ListOutcome(2) = "ok"
    /\ Len(del_list_seven) = 2
    /\ del_list_seven[1].post_id > del_list_seven[2].post_id
    /\ del_list_seven[1].created_at < del_list_seven[2].created_at
    /\ \E i \in 1..Len(store) :
        /\ store[i].user_id # env["BOT_ID"]
        /\ store[i].create_at < CutoffInstant(6)
        /\ Contains(store[i].message, this_week)

\* C4: a run in which a call to the Post Store or the Calendar Reader
\* failed has ended in a fatal error and has created no post.
C4_FailureIsFatal ==
    (pc = "end" /\ \E k \in 1..Len(calls) : calls[k].outcome # "ok") =>
        /\ err # "none"
        /\ \A k \in 1..Len(calls) : calls[k].api # "POST /posts"

\* ---- google_calender.py and the digest (CalSpec)
WindowOf(method) ==
    /\ pc \in {"fetched", "done"}
    /\ Len(calls) > 0
    /\ window.method = method

\* C3: the window of get_next_week_events starts at the first Monday 00:00
\* strictly after now, at most seven days ahead, and ends seven days after
\* its start.
C3_NextWeekWindow ==
    WindowOf("get_next_week_events") =>
        /\ weekday(window.start.wall) = 0
        /\ HourOf(window.start.wall) = 0
        /\ window.start.utcoffset = cal_now.utcoffset
        /\ window.start.wall > cal_now.wall
        /\ window.start.wall - cal_now.wall <= 7 * HoursPerDay
        /\ window.end.wall = window.start.wall + 7 * HoursPerDay
        /\ window.end.utcoffset = window.start.utcoffset

\* get_next_week_events was called at exactly Monday 00:00 local time
C3_Witness ==
    /\ WindowOf("get_next_week_events")
    /\ weekday(cal_now.wall) = 0
    /\ HourOf(cal_now.wall) = 0
    /\ window.start.wall = cal_now.wall + 7 * HoursPerDay

AttributeErrors ==
    {"AttributeError: 'GoogleCalendarData' object has no attribute 'html_link'"}

\* C7: create_attachments completes on the events the Calendar Reader
\* returned, with one attachment per event.
C7_AttachmentsPerEvent ==
    (pc = "done" /\ digest_class # "none") =>
        /\ err \notin AttributeErrors
        /\ Len(attachments) = Len(events)

\* C8: timeMin and timeMax denote the instants of the window's boundaries.
C8_BoundsAreUtcInstants ==
    (pc \in {"fetched", "done"} /\ Len(calls) > 0) =>
        /\ InstantOfTimestamp(request.timeMin) = InstantOf(window.start)
        /\ InstantOfTimestamp(request.timeMax) = InstantOf(window.end)

Posted ==
    /\ pc = "done"
    /\ Len(calls) = 2
    /\ calls[2].api = "POST /posts"

\* C10: the message of a weekly digest carries the weekly tag and the
\* message of a daily digest does not, whatever the events read; the
\* message posted is the header and the separator only.
C10_DigestClass ==
    /\ digest_class = "weekly" => weekly_tagged(digest_message(msg_header))
    /\ digest_class = "daily" => ~weekly_tagged(digest_message(msg_header))
    /\ Posted =>
        /\ payload.message = digest_message(msg_header)
        /\ weekly_tagged(payload.message) = (digest_class = "weekly")

\* a daily digest header was built from events one of whose titles holds
\* the weekly tag
C10_Witness ==
    /\ digest_class = "daily"
    /\ Len(events) > 0
    /\ \E i \in 1..Len(events) : Contains(events[i].summary, this_week)
    /\ msg_header # <<>>

====
